---- MODULE Spec2Model ----
(***************************************************************************)
(* Model of src/node_based.go: the bounded multi-producer multi-consumer   *)
(* ring buffer nodeBased[T] (Offer, Poll, SingleProducerOffer,             *)
(* SingleConsumerPoll, SingleConsumerPollVec, PollNBatched).               *)
(* Every action is one shared-memory access of one call                    *)
(* (an atomic load, a CAS, a plain access of node.value, a stamp store)    *)
(* together with the local computation that follows it.                    *)
(***************************************************************************)
EXTENDS Naturals, Integers, Sequences, FiniteSets

\* ------------------------------------------------------------------ bounds
\* Number of distinct values handed to Offer in the concurrent specifications.
MaxVal == 3
\* Largest n passed to PollNBatched in the concurrent specifications.
MaxN == 2
\* Number of distinct values handed to Offer in the one-thread specification.
SeqMaxVal == 10
\* Largest n passed to PollNBatched in the one-thread specification.
SeqMaxN == 10
\* Number of values v1..vN of the single-producer/single-consumer run.
SpscMaxVal == 5
\* Largest number of values the supplier of SingleProducerOffer yields.
SpoMaxN == 3

\* ------------------------------------------------------- program constants
\* node_based.go:161, "available < 8".
BatchLimit == 8
\* The zero value of T (values handed to Offer are 1, 2, ...).
Zero == 0

Producers == {"p1", "p2"}
Consumers == {"c1", "c2"}
Threads == Producers \cup Consumers

VARIABLES
    head,      \* nodeBased.head
    tail,      \* nodeBased.tail
    mask,      \* nodeBased.mask
    element,   \* nodeBased.element: index -> [step, value]
    pc,        \* per thread: the next statement of its call, or "idle"
    frame,     \* per thread: the locals of its call
    ret,       \* per thread: what its last call returned
    nextVal,   \* driver: number of values handed to Offer so far
    pending,   \* driver: per thread, the value a failed Offer will retry (or Zero)
    offered,   \* history: values in the order their CAS on tail succeeded
    sent,      \* history: values whose Offer returned true
    recv,      \* history: per thread, <<position, value>> pairs its polls returned
    obs,       \* history: per thread, observations of the call in progress
    active,    \* history: threads that have started a polling call
    queue,     \* reference: the abstract bounded FIFO queue (one-thread runs)
    absRet,    \* reference: what the abstract queue answered to the last call
    snap       \* reference: head and element when PollNBatched was called

vars == <<head, tail, mask, element, pc, frame, ret, nextVal, pending,
          offered, sent, recv, obs, active, queue, absRet, snap>>

\* The reference variables: only the one-thread specification moves them.
abs == <<queue, absRet, snap>>

shared == <<head, tail, mask, element>>

\* ------------------------------------------------------------ pure helpers
RECURSIVE BitAnd(_, _)
\* x & y on unsigned integers.
BitAnd(x, y) ==
    IF x = 0 \/ y = 0 THEN 0
    ELSE (x % 2) * (y % 2) + 2 * BitAnd(x \div 2, y \div 2)

\* newNodeBased: mask = capacity - 1.
MaskOf(capacity) == capacity - 1

\* newNodeBased: nodes[i] = &node{step: i}.
NewNodes(capacity) == [idx \in 0 .. capacity - 1 |-> [step |-> idx, value |-> Zero]]

\* The node index mutated: the position modulo the capacity.
NodeIdxModulo(pos) == pos % (mask + 1)
\* r.element[pos & r.mask]
NodeIdx(pos) == BitAnd(pos, mask)

\* Offer's check mutated: accepts a node one step ahead.
OfferReadyOffByOne(oldStep, oldTail) == oldStep = oldTail \/ oldStep = oldTail + 1
\* Offer: "if oldStep != oldTail { return false }".
OfferReady(oldStep, oldTail) == oldStep = oldTail

\* Poll's check mutated: accepts a node that is not published yet.
PollReadyUnpublished(oldStep, oldHead) == oldStep = oldHead + 1 \/ oldStep = oldHead
\* Poll: "if oldStep != oldHead+1 { return }".
PollReady(oldStep, oldHead) == oldStep = oldHead + 1

\* Offer's publish mutated: the stamp is not advanced.
PublishSame(s) == s
\* Offer: StoreUint64(&tailNode.step, tailNode.step+1).
Publish(s) == s + 1

\* Poll's re-arm mutated: one less than the stamp the next cycle expects.
RearmShort(s) == s + mask - 1
\* Poll's re-arm mutated: the capacity is added instead of the mask.
RearmLong(s) == s + mask + 1
\* Poll, PollNBatched: StoreUint64(&node.step, step+r.mask).
Rearm(s) == s + mask

IdleFrame ==
    [caller |-> "none", value |-> Zero, oldTail |-> 0, oldHead |-> 0,
     oldStep |-> 0, step |-> 0, n |-> 0, count |-> 0, available |-> 0,
     i |-> 0, values |-> <<>>]

\* What a call returned; n echoes the argument of PollNBatched.
NoRet == [op |-> "none", success |-> FALSE, value |-> Zero, values |-> <<>>,
          count |-> 0, n |-> 0]

\* What a call saw.  pos: the position its CAS claimed (-1: none).  At the moment
\* it loaded the node's stamp: empty (head = tail), full (tail - head = capacity),
\* inFlight (the call that claimed the node before had not stored its stamp yet).
\* moved: at the moment it returned, the counter differed from the value it had
\* loaded; in PollNBatched: the round in progress, up to its CAS, follows one
\* that lost its CAS.  For PollNBatched: the position of every value, the runs it
\* claimed.
NoObs == [pos |-> -1, empty |-> FALSE, full |-> FALSE, inFlight |-> FALSE,
          moved |-> FALSE, positions |-> <<>>, runs |-> <<>>]

\* Position p is claimed by an Offer (its CAS on tail succeeded) that has not
\* stored the node's stamp yet.
ClaimedByOffer(p) ==
    \E u \in Threads :
        /\ pc[u] \in {"OfferWriteValue", "OfferReadStep", "OfferPublish"}
        /\ frame[u].oldTail = p

\* Position p is claimed by a Poll or PollNBatched (its CAS on head succeeded)
\* that has not stored the node's stamp yet.
ClaimedByPoll(p) ==
    \E u \in Threads :
        \/ /\ pc[u] \in {"PollReadValue", "PollRearm"}
           /\ frame[u].oldHead = p
        \/ /\ pc[u] \in {"BatchReadStep", "BatchReadValue", "BatchRearm"}
           /\ frame[u].oldHead + frame[u].i <= p
           /\ p < frame[u].oldHead + frame[u].available

\* ------------------------------------------------------------ construction
\* newNodeBased(capacity), all threads idle.
InitWith(capacities) ==
    /\ \E capacity \in capacities :
          /\ mask = MaskOf(capacity)
          /\ element = NewNodes(capacity)
    /\ head = 0
    /\ tail = 0
    /\ pc = [t \in Threads |-> "idle"]
    /\ frame = [t \in Threads |-> IdleFrame]
    /\ ret = [t \in Threads |-> NoRet]
    /\ nextVal = 0
    /\ pending = [t \in Threads |-> Zero]
    /\ offered = <<>>
    /\ sent = {}
    /\ recv = [t \in Threads |-> <<>>]
    /\ obs = [t \in Threads |-> NoObs]
    /\ active = {}
    /\ queue = <<>>
    /\ absRet = NoRet
    /\ snap = [head |-> 0, tail |-> 0, element |-> element]

\* ------------------------------------------------------------------- Offer
\* The driver calls Offer(value) with a fresh value, or with the value of its
\* call that just returned false (the retry of SingleProducerOffer and of the
\* stress test).  The call begins: oldTail := atomic.LoadUint64(&r.tail).
OfferCall(t, maxVal) ==
    /\ pc[t] = "idle"
    /\ IF pending[t] # Zero
       THEN /\ frame' = [frame EXCEPT ![t] = [IdleFrame EXCEPT !.caller = "Offer",
                                                !.value = pending[t], !.oldTail = tail]]
            /\ UNCHANGED nextVal
       ELSE /\ nextVal < maxVal
            /\ nextVal' = nextVal + 1
            /\ frame' = [frame EXCEPT ![t] = [IdleFrame EXCEPT !.caller = "Offer",
                                                !.value = nextVal + 1, !.oldTail = tail]]
    /\ pending' = [pending EXCEPT ![t] = Zero]
    /\ pc' = [pc EXCEPT ![t] = "OfferLoadStep"]
    /\ ret' = [ret EXCEPT ![t] = NoRet]
    /\ obs' = [obs EXCEPT ![t] = NoObs]
    /\ UNCHANGED <<shared, offered, sent, recv, active>>

\* The driver calls SingleProducerOffer(valueSupplier) on a fresh buffer; the
\* supplier yields the values 1 .. n and then reports finish.
SingleProducerOfferCall(t, maxN) ==
    /\ pc[t] = "idle"
    /\ ret[t].op = "none"
    /\ nextVal = 0
    /\ \E n \in 0 .. maxN :
         frame' = [frame EXCEPT ![t] = [IdleFrame EXCEPT !.caller = "SingleProducerOffer",
                                                         !.n = n]]
    /\ pc' = [pc EXCEPT ![t] = "SupplierCall"]
    /\ obs' = [obs EXCEPT ![t] = NoObs]
    /\ UNCHANGED <<shared, ret, nextVal, pending, offered, sent, recv, active>>

\* v, finish := valueSupplier(); if finish { return }.  frame.count counts the
\* calls of the supplier, frame.i the values it has yielded.
SupplierCall(t) ==
    /\ pc[t] = "SupplierCall"
    /\ IF frame[t].i = frame[t].n
       THEN /\ pc' = [pc EXCEPT ![t] = "idle"]
            /\ ret' = [ret EXCEPT ![t] = [NoRet EXCEPT !.op = "SingleProducerOffer",
                                                       !.success = TRUE,
                                                       !.n = frame[t].n,
                                                       !.count = frame[t].count + 1]]
            /\ frame' = [frame EXCEPT ![t] = IdleFrame]
            /\ UNCHANGED nextVal
       ELSE /\ nextVal' = nextVal + 1
            /\ frame' = [frame EXCEPT ![t].value = nextVal + 1,
                                      ![t].i = @ + 1,
                                      ![t].count = @ + 1]
            /\ pc' = [pc EXCEPT ![t] = "OfferLoadTail"]
            /\ UNCHANGED ret
    /\ UNCHANGED <<shared, pending, offered, sent, recv, obs, active>>

\* Offer called from the loop of SingleProducerOffer:
\* oldTail := atomic.LoadUint64(&r.tail)
OfferLoadTail(t) ==
    /\ pc[t] = "OfferLoadTail"
    /\ frame' = [frame EXCEPT ![t].oldTail = tail]
    /\ pc' = [pc EXCEPT ![t] = "OfferLoadStep"]
    /\ UNCHANGED <<shared, ret, nextVal, pending, offered, sent, recv, obs, active>>

\* The spin of SingleProducerOffer mutated into one attempt per value:
\* "if !r.Offer(v) {}" goes on to the next value.
OfferFailNoSpin(t) ==
    IF frame[t].caller = "SingleProducerOffer"
    THEN /\ pc' = [pc EXCEPT ![t] = "SupplierCall"]
         /\ UNCHANGED <<frame, ret, pending>>
    ELSE /\ pc' = [pc EXCEPT ![t] = "idle"]
         /\ ret' = [ret EXCEPT ![t] = [NoRet EXCEPT !.op = "Offer", !.success = FALSE]]
         /\ pending' = [pending EXCEPT ![t] = frame[t].value]
         /\ frame' = [frame EXCEPT ![t] = IdleFrame]

\* Offer returns false: only the caller's own state changes.  In
\* SingleProducerOffer: "for !r.Offer(v) {}" calls Offer again.
OfferFail(t) ==
    IF frame[t].caller = "SingleProducerOffer"
    THEN /\ pc' = [pc EXCEPT ![t] = "OfferLoadTail"]
         /\ UNCHANGED <<frame, ret, pending>>
    ELSE /\ pc' = [pc EXCEPT ![t] = "idle"]
         /\ ret' = [ret EXCEPT ![t] = [NoRet EXCEPT !.op = "Offer", !.success = FALSE]]
         /\ pending' = [pending EXCEPT ![t] = frame[t].value]
         /\ frame' = [frame EXCEPT ![t] = IdleFrame]

\* oldStep := atomic.LoadUint64(&tailNode.step); if oldStep != oldTail { return false }
OfferLoadStep(t) ==
    /\ pc[t] = "OfferLoadStep"
    /\ LET s == element[NodeIdx(frame[t].oldTail)].step IN
         IF OfferReady(s, frame[t].oldTail)
         THEN /\ frame' = [frame EXCEPT ![t].oldStep = s]
              /\ pc' = [pc EXCEPT ![t] = "OfferCAS"]
              /\ UNCHANGED <<ret, pending, obs>>
         ELSE /\ OfferFail(t)
              /\ obs' = [obs EXCEPT ![t].full = (tail - head = mask + 1),
                                    ![t].inFlight = ClaimedByPoll(tail - (mask + 1)),
                                    ![t].moved = (tail # frame[t].oldTail)]
    /\ UNCHANGED <<shared, nextVal, offered, sent, recv, active>>

\* Offer's CAS mutated into a fetch-and-add: tail is advanced even when the
\* call lost the race and returns false.
OfferCASAsAdd(t) ==
    /\ pc[t] = "OfferCAS"
    /\ tail' = tail + 1
    /\ IF tail = frame[t].oldTail
       THEN /\ offered' = Append(offered, frame[t].value)
            /\ obs' = [obs EXCEPT ![t].pos = frame[t].oldTail]
            /\ pc' = [pc EXCEPT ![t] = "OfferWriteValue"]
            /\ UNCHANGED <<frame, ret, pending>>
       ELSE /\ OfferFail(t)
            /\ obs' = [obs EXCEPT ![t].moved = (tail # frame[t].oldTail)]
            /\ UNCHANGED offered
    /\ UNCHANGED <<head, mask, element, nextVal, sent, recv, active>>

\* Offer's CAS mutated into a weak CAS, which may fail though tail = oldTail.
OfferCASWeak(t) ==
    /\ pc[t] = "OfferCAS"
    /\ \E ok \in {tail = frame[t].oldTail, FALSE} :
         IF ok
         THEN /\ tail' = frame[t].oldTail + 1
              /\ offered' = Append(offered, frame[t].value)
              /\ obs' = [obs EXCEPT ![t].pos = frame[t].oldTail]
              /\ pc' = [pc EXCEPT ![t] = "OfferWriteValue"]
              /\ UNCHANGED <<frame, ret, pending>>
         ELSE /\ OfferFail(t)
              /\ obs' = [obs EXCEPT ![t].moved = (tail # frame[t].oldTail)]
              /\ UNCHANGED <<tail, offered>>
    /\ UNCHANGED <<head, mask, element, nextVal, sent, recv, active>>

\* Offer's CAS mutated into a plain store of oldTail+1.
OfferCASAsStore(t) ==
    /\ pc[t] = "OfferCAS"
    /\ tail' = frame[t].oldTail + 1
    /\ offered' = Append(offered, frame[t].value)
    /\ obs' = [obs EXCEPT ![t].pos = frame[t].oldTail]
    /\ pc' = [pc EXCEPT ![t] = "OfferWriteValue"]
    /\ UNCHANGED <<head, mask, element, frame, ret, pending, nextVal, sent, recv, active>>

\* if !atomic.CompareAndSwapUint64(&r.tail, oldTail, oldTail+1) { return false }
OfferCAS(t) ==
    /\ pc[t] = "OfferCAS"
    /\ IF tail = frame[t].oldTail
       THEN /\ tail' = frame[t].oldTail + 1
            /\ offered' = Append(offered, frame[t].value)
            /\ obs' = [obs EXCEPT ![t].pos = frame[t].oldTail]
            /\ pc' = [pc EXCEPT ![t] = "OfferWriteValue"]
            /\ UNCHANGED <<frame, ret, pending>>
       ELSE /\ OfferFail(t)
            /\ obs' = [obs EXCEPT ![t].moved = (tail # frame[t].oldTail)]
            /\ UNCHANGED <<tail, offered>>
    /\ UNCHANGED <<head, mask, element, nextVal, sent, recv, active>>

\* tailNode.value = value
OfferWriteValue(t) ==
    /\ pc[t] = "OfferWriteValue"
    /\ element' = [element EXCEPT ![NodeIdx(frame[t].oldTail)].value = frame[t].value]
    /\ pc' = [pc EXCEPT ![t] = "OfferReadStep"]
    /\ UNCHANGED <<head, tail, mask, frame, ret, nextVal, pending, offered, sent,
                   recv, obs, active>>

\* the plain read of tailNode.step in "tailNode.step+1"
OfferReadStep(t) ==
    /\ pc[t] = "OfferReadStep"
    /\ frame' = [frame EXCEPT ![t].step = element[NodeIdx(frame[t].oldTail)].step]
    /\ pc' = [pc EXCEPT ![t] = "OfferPublish"]
    /\ UNCHANGED <<shared, ret, nextVal, pending, offered, sent, recv, obs, active>>

\* atomic.StoreUint64(&tailNode.step, tailNode.step+1); return true.
\* In SingleProducerOffer the loop goes on to the next call of the supplier.
OfferPublish(t) ==
    /\ pc[t] = "OfferPublish"
    /\ element' = [element EXCEPT ![NodeIdx(frame[t].oldTail)].step = Publish(frame[t].step)]
    /\ sent' = sent \cup {frame[t].value}
    /\ IF frame[t].caller = "SingleProducerOffer"
       THEN /\ pc' = [pc EXCEPT ![t] = "SupplierCall"]
            /\ UNCHANGED <<frame, ret, obs>>
       ELSE /\ pc' = [pc EXCEPT ![t] = "idle"]
            /\ ret' = [ret EXCEPT ![t] = [NoRet EXCEPT !.op = "Offer", !.success = TRUE]]
            /\ frame' = [frame EXCEPT ![t] = IdleFrame]
            /\ obs' = [obs EXCEPT ![t] = NoObs]
    /\ UNCHANGED <<head, tail, mask, nextVal, pending, offered, recv, active>>

\* One step of a call of Offer in progress.
Offer(t) ==
    \/ OfferLoadStep(t)
    \/ OfferCAS(t)
    \/ OfferWriteValue(t)
    \/ OfferReadStep(t)
    \/ OfferPublish(t)

\* -------------------------------------------------------------------- Poll
\* The driver calls Poll().  The call begins: oldHead := atomic.LoadUint64(&r.head).
PollCall(t) ==
    /\ pc[t] = "idle"
    /\ frame' = [frame EXCEPT ![t] = [IdleFrame EXCEPT !.caller = "Poll",
                                                      !.oldHead = head]]
    /\ pc' = [pc EXCEPT ![t] = "PollLoadStep"]
    /\ ret' = [ret EXCEPT ![t] = NoRet]
    /\ obs' = [obs EXCEPT ![t] = NoObs]
    /\ active' = active \cup {t}
    /\ UNCHANGED <<shared, nextVal, pending, offered, sent, recv>>

\* The driver calls SingleConsumerPoll(valueConsumer): "for { v, success := r.Poll()".
SingleConsumerPollCall(t) ==
    /\ pc[t] = "idle"
    /\ frame' = [frame EXCEPT ![t] = [IdleFrame EXCEPT !.caller = "SingleConsumerPoll"]]
    /\ pc' = [pc EXCEPT ![t] = "PollLoadHead"]
    /\ ret' = [ret EXCEPT ![t] = NoRet]
    /\ obs' = [obs EXCEPT ![t] = NoObs]
    /\ active' = active \cup {t}
    /\ UNCHANGED <<shared, nextVal, pending, offered, sent, recv>>

\* The driver calls SingleConsumerPollVec(ret) with a zeroed slice of length
\* len: "for ; cnt < len(ret); cnt++ { v, success := r.Poll()"; with len = 0
\* the call returns 0 at once.  frame.values is the slice, frame.count is cnt.
SingleConsumerPollVecCall(t, maxLen) ==
    /\ pc[t] = "idle"
    /\ \E len \in 0 .. maxLen :
         IF len = 0
         THEN /\ pc' = [pc EXCEPT ![t] = "idle"]
              /\ ret' = [ret EXCEPT ![t] = [NoRet EXCEPT !.op = "SingleConsumerPollVec",
                                                         !.success = TRUE]]
              /\ UNCHANGED frame
         ELSE /\ pc' = [pc EXCEPT ![t] = "PollLoadHead"]
              /\ ret' = [ret EXCEPT ![t] = NoRet]
              /\ frame' = [frame EXCEPT ![t] =
                              [IdleFrame EXCEPT !.caller = "SingleConsumerPollVec",
                                                !.n = len,
                                                !.values = [k \in 1 .. len |-> Zero]]]
    /\ obs' = [obs EXCEPT ![t] = NoObs]
    /\ active' = active \cup {t}
    /\ UNCHANGED <<shared, nextVal, pending, offered, sent, recv>>

\* Poll returns (zero, false); in SingleConsumerPoll: "if !success { return }";
\* in SingleConsumerPollVec: "if !success { break }" and "return uint64(cnt)",
\* the slice as filled so far.  (For Poll and SingleConsumerPoll frame.values is
\* empty and frame.count and frame.n are 0.)
PollFail(t) ==
    /\ pc' = [pc EXCEPT ![t] = "idle"]
    /\ ret' = [ret EXCEPT ![t] = [NoRet EXCEPT !.op = frame[t].caller,
                                               !.success = FALSE, !.value = Zero,
                                               !.values = frame[t].values,
                                               !.count = frame[t].count,
                                               !.n = frame[t].n]]
    /\ frame' = [frame EXCEPT ![t] = IdleFrame]

\* Poll called from the loop of SingleConsumerPoll or SingleConsumerPollVec:
\* oldHead := atomic.LoadUint64(&r.head)
PollLoadHead(t) ==
    /\ pc[t] = "PollLoadHead"
    /\ frame' = [frame EXCEPT ![t].oldHead = head]
    /\ pc' = [pc EXCEPT ![t] = "PollLoadStep"]
    /\ UNCHANGED <<shared, ret, nextVal, pending, offered, sent, recv, obs, active>>

\* oldStep := atomic.LoadUint64(&headNode.step); if oldStep != oldHead+1 { return }
PollLoadStep(t) ==
    /\ pc[t] = "PollLoadStep"
    /\ LET s == element[NodeIdx(frame[t].oldHead)].step IN
         IF PollReady(s, frame[t].oldHead)
         THEN /\ frame' = [frame EXCEPT ![t].oldStep = s]
              /\ pc' = [pc EXCEPT ![t] = "PollCAS"]
              /\ UNCHANGED <<ret, obs>>
         ELSE /\ PollFail(t)
              /\ obs' = [obs EXCEPT ![t].empty = (head = tail),
                                    ![t].inFlight = ClaimedByOffer(head),
                                    ![t].moved = (head # frame[t].oldHead)]
    /\ UNCHANGED <<shared, nextVal, pending, offered, sent, recv, active>>

\* Poll's CAS mutated into a weak CAS, which may fail though head = oldHead.
PollCASWeak(t) ==
    /\ pc[t] = "PollCAS"
    /\ \E ok \in {head = frame[t].oldHead, FALSE} :
         IF ok
         THEN /\ head' = frame[t].oldHead + 1
              /\ obs' = [obs EXCEPT ![t].pos = frame[t].oldHead]
              /\ pc' = [pc EXCEPT ![t] = "PollReadValue"]
              /\ UNCHANGED <<frame, ret>>
         ELSE /\ PollFail(t)
              /\ obs' = [obs EXCEPT ![t].moved = (head # frame[t].oldHead)]
              /\ UNCHANGED head
    /\ UNCHANGED <<tail, mask, element, nextVal, pending, offered, sent, recv, active>>

\* Poll's CAS mutated into a plain store of oldHead+1.
PollCASAsStore(t) ==
    /\ pc[t] = "PollCAS"
    /\ head' = frame[t].oldHead + 1
    /\ obs' = [obs EXCEPT ![t].pos = frame[t].oldHead]
    /\ pc' = [pc EXCEPT ![t] = "PollReadValue"]
    /\ UNCHANGED <<tail, mask, element, frame, ret, nextVal, pending, offered, sent,
                   recv, active>>

\* if !atomic.CompareAndSwapUint64(&r.head, oldHead, oldHead+1) { return }
PollCAS(t) ==
    /\ pc[t] = "PollCAS"
    /\ IF head = frame[t].oldHead
       THEN /\ head' = frame[t].oldHead + 1
            /\ obs' = [obs EXCEPT ![t].pos = frame[t].oldHead]
            /\ pc' = [pc EXCEPT ![t] = "PollReadValue"]
            /\ UNCHANGED <<frame, ret>>
       ELSE /\ PollFail(t)
            /\ obs' = [obs EXCEPT ![t].moved = (head # frame[t].oldHead)]
            /\ UNCHANGED head
    /\ UNCHANGED <<tail, mask, element, nextVal, pending, offered, sent, recv, active>>

\* value = headNode.value
PollReadValue(t) ==
    /\ pc[t] = "PollReadValue"
    /\ frame' = [frame EXCEPT ![t].value = element[NodeIdx(frame[t].oldHead)].value]
    /\ pc' = [pc EXCEPT ![t] = "PollRearm"]
    /\ UNCHANGED <<shared, ret, nextVal, pending, offered, sent, recv, obs, active>>

\* atomic.StoreUint64(&headNode.step, oldStep+r.mask); return value, true.
\* In SingleConsumerPoll: valueConsumer(v), and the loop calls Poll again.
\* In SingleConsumerPollVec: ret[cnt] = v; cnt++; the loop calls Poll again
\* while cnt < len(ret), then "return uint64(cnt)".
PollRearm(t) ==
    /\ pc[t] = "PollRearm"
    /\ element' = [element EXCEPT ![NodeIdx(frame[t].oldHead)].step = Rearm(frame[t].oldStep)]
    /\ recv' = [recv EXCEPT ![t] = Append(@, <<obs[t].pos, frame[t].value>>)]
    /\ obs' = [obs EXCEPT ![t] = NoObs]
    /\ IF frame[t].caller = "SingleConsumerPoll"
       THEN /\ pc' = [pc EXCEPT ![t] = "PollLoadHead"]
            /\ frame' = [frame EXCEPT ![t] = [IdleFrame EXCEPT !.caller = "SingleConsumerPoll"]]
            /\ UNCHANGED ret
       ELSE IF frame[t].caller = "SingleConsumerPollVec"
       THEN LET cnt == frame[t].count + 1
                slice == [frame[t].values EXCEPT ![cnt] = frame[t].value]
            IN  IF cnt < frame[t].n
                THEN /\ pc' = [pc EXCEPT ![t] = "PollLoadHead"]
                     /\ frame' = [frame EXCEPT ![t] =
                                     [IdleFrame EXCEPT !.caller = "SingleConsumerPollVec",
                                                       !.n = frame[t].n,
                                                       !.count = cnt,
                                                       !.values = slice]]
                     /\ UNCHANGED ret
                ELSE /\ pc' = [pc EXCEPT ![t] = "idle"]
                     /\ ret' = [ret EXCEPT ![t] =
                                   [NoRet EXCEPT !.op = "SingleConsumerPollVec",
                                                 !.success = TRUE,
                                                 !.values = slice,
                                                 !.count = cnt,
                                                 !.n = frame[t].n]]
                     /\ frame' = [frame EXCEPT ![t] = IdleFrame]
       ELSE /\ pc' = [pc EXCEPT ![t] = "idle"]
            /\ ret' = [ret EXCEPT ![t] = [NoRet EXCEPT !.op = "Poll", !.success = TRUE,
                                                       !.value = frame[t].value]]
            /\ frame' = [frame EXCEPT ![t] = IdleFrame]
    /\ UNCHANGED <<head, tail, mask, nextVal, pending, offered, sent, active>>

\* One step of a call of Poll in progress.
Poll(t) ==
    \/ PollLoadStep(t)
    \/ PollCAS(t)
    \/ PollReadValue(t)
    \/ PollRearm(t)

\* ------------------------------------------------------------ PollNBatched
\* PollNBatched returns (values, count).
BatchReturn(t, vals, cnt) ==
    /\ pc' = [pc EXCEPT ![t] = "idle"]
    /\ ret' = [ret EXCEPT ![t] = [NoRet EXCEPT !.op = "PollNBatched", !.success = TRUE,
                                               !.values = vals, !.count = cnt,
                                               !.n = frame[t].n]]
    /\ recv' = [recv EXCEPT ![t] =
                  @ \o [k \in 1 .. Len(vals) |-> <<obs[t].positions[k], vals[k]>>]]
    /\ frame' = [frame EXCEPT ![t] = IdleFrame]

\* The scan's loop condition mutated: count is not subtracted from n.
ScanMoreIgnoresCount(i, n, count, available) == i < n /\ available < BatchLimit
\* The scan's loop condition: "i < n-count && available < 8".
ScanMore(i, n, count, available) == i < n - count /\ available < BatchLimit

\* The driver calls PollNBatched(n): "if n == 0 { return nil, 0 }",
\* values = make([]T, 0, n), count = 0.
PollNBatchedCall(t, maxN) ==
    /\ pc[t] = "idle"
    /\ \E n \in 0 .. maxN :
         IF n = 0
         THEN /\ pc' = [pc EXCEPT ![t] = "idle"]
              /\ ret' = [ret EXCEPT ![t] = [NoRet EXCEPT !.op = "PollNBatched",
                                                         !.success = TRUE]]
              /\ UNCHANGED frame
         ELSE /\ pc' = [pc EXCEPT ![t] = "BatchLoadHead"]
              /\ ret' = [ret EXCEPT ![t] = NoRet]
              /\ frame' = [frame EXCEPT ![t] = [IdleFrame EXCEPT !.caller = "PollNBatched",
                                                                !.n = n]]
    /\ obs' = [obs EXCEPT ![t] = NoObs]
    /\ active' = active \cup {t}
    /\ UNCHANGED <<shared, nextVal, pending, offered, sent, recv>>

\* "for count < n {": oldHead := atomic.LoadUint64(&r.head); available := 0; i := 0.
\* When count < n is false: return values, count.
BatchLoadHead(t) ==
    /\ pc[t] = "BatchLoadHead"
    /\ IF frame[t].count < frame[t].n
       THEN /\ frame' = [frame EXCEPT ![t].oldHead = head, ![t].available = 0, ![t].i = 0]
            /\ pc' = [pc EXCEPT ![t] = "BatchScan"]
            /\ UNCHANGED <<ret, recv>>
       ELSE BatchReturn(t, frame[t].values, frame[t].count)
    /\ UNCHANGED <<shared, nextVal, pending, offered, sent, obs, active>>

\* One iteration of the scan: step := atomic.LoadUint64(&node.step);
\* "if step != oldHead+i+1 { break }"; available++; i++.  After the loop:
\* "if available == 0 { break }" leaves the outer loop: return values, count.
BatchScan(t) ==
    /\ pc[t] = "BatchScan"
    /\ LET f == frame[t]
           s == element[NodeIdx(f.oldHead + f.i)].step
           ready == PollReady(s, f.oldHead + f.i)
           avail == IF ready THEN f.available + 1 ELSE f.available
       IN  IF ready /\ ScanMore(f.i + 1, f.n, f.count, avail)
           THEN /\ frame' = [frame EXCEPT ![t].available = avail, ![t].i = f.i + 1]
                /\ UNCHANGED <<pc, ret, recv>>
           ELSE IF avail = 0
           THEN BatchReturn(t, f.values, f.count)
           ELSE /\ frame' = [frame EXCEPT ![t].available = avail, ![t].i = 0]
                /\ pc' = [pc EXCEPT ![t] = "BatchCAS"]
                /\ UNCHANGED <<ret, recv>>
    /\ obs' = [obs EXCEPT ![t].moved = @ /\ pc'[t] # "idle"]
    /\ UNCHANGED <<shared, nextVal, pending, offered, sent, active>>

\* The batch CAS mutated into a weak CAS, which may fail though head = oldHead.
BatchCASWeak(t) ==
    /\ pc[t] = "BatchCAS"
    /\ \E ok \in {head = frame[t].oldHead, FALSE} :
         IF ok
         THEN /\ head' = frame[t].oldHead + frame[t].available
              /\ obs' = [obs EXCEPT ![t].runs =
                            Append(@, <<frame[t].oldHead, frame[t].available>>),
                                    ![t].moved = FALSE]
              /\ pc' = [pc EXCEPT ![t] = "BatchReadStep"]
         ELSE /\ pc' = [pc EXCEPT ![t] = "BatchLoadHead"]
              /\ obs' = [obs EXCEPT ![t].moved = TRUE]
              /\ UNCHANGED head
    /\ UNCHANGED <<tail, mask, element, frame, ret, nextVal, pending, offered, sent,
                   recv, active>>

\* The batch CAS mutated into a plain store of oldHead+available.
BatchCASAsStore(t) ==
    /\ pc[t] = "BatchCAS"
    /\ head' = frame[t].oldHead + frame[t].available
    /\ obs' = [obs EXCEPT ![t].runs =
                  Append(@, <<frame[t].oldHead, frame[t].available>>),
                          ![t].moved = FALSE]
    /\ pc' = [pc EXCEPT ![t] = "BatchReadStep"]
    /\ UNCHANGED <<tail, mask, element, frame, ret, nextVal, pending, offered, sent,
                   recv, active>>

\* The "continue" after a lost batch CAS mutated into a restart of the call:
\* what was collected so far is dropped.
BatchCASDiscards(t) ==
    /\ pc[t] = "BatchCAS"
    /\ IF head = frame[t].oldHead
       THEN /\ head' = frame[t].oldHead + frame[t].available
            /\ obs' = [obs EXCEPT ![t].runs =
                          Append(@, <<frame[t].oldHead, frame[t].available>>),
                                  ![t].moved = FALSE]
            /\ pc' = [pc EXCEPT ![t] = "BatchReadStep"]
            /\ UNCHANGED frame
       ELSE /\ pc' = [pc EXCEPT ![t] = "BatchLoadHead"]
            /\ obs' = [obs EXCEPT ![t].moved = TRUE, ![t].positions = <<>>,
                                  ![t].runs = <<>>]
            /\ frame' = [frame EXCEPT ![t].count = 0, ![t].values = <<>>]
            /\ UNCHANGED head
    /\ UNCHANGED <<tail, mask, element, ret, nextVal, pending, offered, sent,
                   recv, active>>

\* "if !atomic.CompareAndSwapUint64(&r.head, oldHead, oldHead+available) { continue }"
BatchCAS(t) ==
    /\ pc[t] = "BatchCAS"
    /\ IF head = frame[t].oldHead
       THEN /\ head' = frame[t].oldHead + frame[t].available
            /\ obs' = [obs EXCEPT ![t].runs =
                          Append(@, <<frame[t].oldHead, frame[t].available>>),
                                  ![t].moved = FALSE]
            /\ pc' = [pc EXCEPT ![t] = "BatchReadStep"]
       ELSE /\ pc' = [pc EXCEPT ![t] = "BatchLoadHead"]
            /\ obs' = [obs EXCEPT ![t].moved = TRUE]
            /\ UNCHANGED head
    /\ UNCHANGED <<tail, mask, element, frame, ret, nextVal, pending, offered, sent,
                   recv, active>>

\* extraction loop: step := atomic.LoadUint64(&node.step)
BatchReadStep(t) ==
    /\ pc[t] = "BatchReadStep"
    /\ frame' = [frame EXCEPT ![t].step =
                    element[NodeIdx(frame[t].oldHead + frame[t].i)].step]
    /\ pc' = [pc EXCEPT ![t] = "BatchReadValue"]
    /\ UNCHANGED <<shared, ret, nextVal, pending, offered, sent, recv, obs, active>>

\* values = append(values, node.value)
BatchReadValue(t) ==
    /\ pc[t] = "BatchReadValue"
    /\ frame' = [frame EXCEPT ![t].values =
                    Append(@, element[NodeIdx(frame[t].oldHead + frame[t].i)].value)]
    /\ obs' = [obs EXCEPT ![t].positions = Append(@, frame[t].oldHead + frame[t].i)]
    /\ pc' = [pc EXCEPT ![t] = "BatchRearm"]
    /\ UNCHANGED <<shared, ret, nextVal, pending, offered, sent, recv, active>>

\* atomic.StoreUint64(&node.step, step+r.mask); i++; after the last node of the
\* run: count += available.
BatchRearm(t) ==
    /\ pc[t] = "BatchRearm"
    /\ element' = [element EXCEPT ![NodeIdx(frame[t].oldHead + frame[t].i)].step =
                      Rearm(frame[t].step)]
    /\ IF frame[t].i + 1 < frame[t].available
       THEN /\ frame' = [frame EXCEPT ![t].i = @ + 1]
            /\ pc' = [pc EXCEPT ![t] = "BatchReadStep"]
       ELSE /\ frame' = [frame EXCEPT ![t].count = @ + frame[t].available]
            /\ pc' = [pc EXCEPT ![t] = "BatchLoadHead"]
    /\ UNCHANGED <<head, tail, mask, ret, nextVal, pending, offered, sent, recv, obs,
                   active>>

\* One step of a call of PollNBatched in progress.
PollNBatched(t) ==
    \/ BatchLoadHead(t)
    \/ BatchScan(t)
    \/ BatchCAS(t)
    \/ BatchReadStep(t)
    \/ BatchReadValue(t)
    \/ BatchRearm(t)

\* ------------------------------------------------- sequential reference
\* Poll run alone on a buffer with head h and nodes el (its CAS cannot fail):
\* the result, and the head and nodes it leaves.
PollAlone(h, el) ==
    LET idx == BitAnd(h, mask)
        s == el[idx].step
    IN  IF PollReady(s, h)
        THEN [success |-> TRUE, value |-> el[idx].value, head |-> h + 1,
              element |-> [el EXCEPT ![idx].step = Rearm(s)]]
        ELSE [success |-> FALSE, value |-> Zero, head |-> h, element |-> el]

RECURSIVE PollsAlone(_, _, _)
\* At most m successful Poll calls one after the other, stopping at the first
\* that fails: the values they return, and the head and nodes they leave.
PollsAlone(m, h, el) ==
    IF m = 0 THEN [values |-> <<>>, head |-> h, element |-> el]
    ELSE LET r == PollAlone(h, el) IN
         IF ~r.success THEN [values |-> <<>>, head |-> h, element |-> el]
         ELSE LET rest == PollsAlone(m - 1, r.head, r.element) IN
              [values |-> <<r.value>> \o rest.values, head |-> rest.head,
               element |-> rest.element]

Min(a, b) == IF a <= b THEN a ELSE b

\* The abstract queue of at most mask+1 elements answers Offer(v).
AbsOffer(v) ==
    /\ IF Len(queue) < mask + 1
       THEN /\ queue' = Append(queue, v)
            /\ absRet' = [NoRet EXCEPT !.op = "Offer", !.success = TRUE]
       ELSE /\ queue' = queue
            /\ absRet' = [NoRet EXCEPT !.op = "Offer", !.success = FALSE]
    /\ UNCHANGED snap

\* The abstract queue answers Poll().
AbsPoll ==
    /\ IF queue # <<>>
       THEN /\ queue' = Tail(queue)
            /\ absRet' = [NoRet EXCEPT !.op = "Poll", !.success = TRUE,
                                       !.value = Head(queue)]
       ELSE /\ queue' = queue
            /\ absRet' = [NoRet EXCEPT !.op = "Poll", !.success = FALSE]
    /\ UNCHANGED snap

\* The abstract queue answers PollNBatched(n), and the buffer is recorded as
\* the call finds it.
AbsPollN(n) ==
    LET k == Min(n, Len(queue)) IN
    /\ queue' = SubSeq(queue, k + 1, Len(queue))
    /\ absRet' = [NoRet EXCEPT !.op = "PollNBatched", !.success = TRUE,
                               !.values = SubSeq(queue, 1, k), !.count = k, !.n = n]
    /\ snap' = [head |-> head, tail |-> tail, element |-> element]

\* The abstract queue answers SingleConsumerPollVec on a zeroed slice of length
\* len: the first min(len, size) elements, the rest of the slice left zero.
AbsPollVec(len) ==
    LET k == Min(len, Len(queue)) IN
    /\ queue' = SubSeq(queue, k + 1, Len(queue))
    /\ absRet' = [NoRet EXCEPT !.op = "SingleConsumerPollVec", !.success = (k = len),
                               !.values = SubSeq(queue, 1, k)
                                            \o [j \in 1 .. len - k |-> Zero],
                               !.count = k, !.n = len]
    /\ UNCHANGED snap

\* ---------------------------------------------------------- specifications
\* Capacities of the concurrent runs: powers of two >= 2.
Capacities == {2, 4}

\* Any interleaving of two producers calling Offer and two consumers calling Poll.
Init == InitWith(Capacities)

Next ==
    /\ \/ \E t \in Producers : OfferCall(t, MaxVal) \/ Offer(t)
       \/ \E t \in Consumers : PollCall(t) \/ Poll(t)
    /\ UNCHANGED abs

Spec == Init /\ [][Next]_vars

\* Any interleaving of a producer calling Offer and two consumers calling Poll
\* and PollNBatched.
NextBatch ==
    /\ \/ \E t \in {"p1"} : OfferCall(t, MaxVal) \/ Offer(t)
       \/ \E t \in Consumers : PollCall(t) \/ Poll(t)
       \/ \E t \in Consumers : PollNBatchedCall(t, MaxN) \/ PollNBatched(t)
    /\ UNCHANGED abs

SpecBatch == Init /\ [][NextBatch]_vars

\* Two producers calling Offer, consumer c1 calling SingleConsumerPoll and
\* consumer c2 calling Poll (c2 may never call).
NextSCP ==
    /\ \/ \E t \in Producers : OfferCall(t, MaxVal) \/ Offer(t)
       \/ \E t \in {"c1"} : SingleConsumerPollCall(t) \/ PollLoadHead(t) \/ Poll(t)
       \/ \E t \in {"c2"} : PollCall(t) \/ Poll(t)
    /\ UNCHANGED abs

SpecSCP == Init /\ [][NextSCP]_vars

\* A producer calling Offer, consumer c1 calling SingleConsumerPollVec and
\* consumer c2 calling Poll.
NextVec ==
    /\ \/ \E t \in {"p1"} : OfferCall(t, MaxVal) \/ Offer(t)
       \/ \E t \in {"c1"} : SingleConsumerPollVecCall(t, MaxN) \/ PollLoadHead(t) \/ Poll(t)
       \/ \E t \in {"c2"} : PollCall(t) \/ Poll(t)
    /\ UNCHANGED abs

SpecVec == Init /\ [][NextVec]_vars

\* One producer offering v1..vN in order (retrying a failed Offer) and one
\* consumer calling Poll.
NextSPSC ==
    /\ \/ \E t \in {"p1"} : OfferCall(t, SpscMaxVal) \/ Offer(t)
       \/ \E t \in {"c1"} : PollCall(t) \/ Poll(t)
    /\ UNCHANGED abs

SpecSPSC == Init /\ [][NextSPSC]_vars

\* Any interleaving of two producers calling Offer and a consumer calling Poll
\* and PollNBatched.
NextMixed ==
    /\ \/ \E t \in Producers : OfferCall(t, MaxVal) \/ Offer(t)
       \/ \E t \in {"c1"} : PollCall(t) \/ Poll(t)
       \/ \E t \in {"c1"} : PollNBatchedCall(t, MaxN) \/ PollNBatched(t)
    /\ UNCHANGED abs

SpecMixed == Init /\ [][NextMixed]_vars

\* Any interleaving of a producer calling Offer, consumer c1 calling
\* PollNBatched and consumer c2 calling Poll; a call of PollNBatched in progress
\* keeps taking its steps.
BatchStep == \E t \in {"c1"} : PollNBatched(t)

NextTerm ==
    /\ \/ \E t \in {"p1"} : OfferCall(t, MaxVal) \/ Offer(t)
       \/ \E t \in {"c1"} : PollNBatchedCall(t, MaxN) \/ PollNBatched(t)
       \/ \E t \in {"c2"} : PollCall(t) \/ Poll(t)
    /\ UNCHANGED abs

SpecTerm == Init /\ [][NextTerm]_vars /\ WF_vars(BatchStep /\ UNCHANGED abs)

\* Thread p1 runs SingleProducerOffer once and thread c1 keeps calling Poll; both
\* threads are scheduled fairly.
ProducerStep ==
    \E t \in {"p1"} :
        SingleProducerOfferCall(t, SpoMaxN) \/ SupplierCall(t) \/ OfferLoadTail(t) \/ Offer(t)

ConsumerStep == \E t \in {"c1"} : PollCall(t) \/ Poll(t)

NextSPO ==
    /\ \/ \E t \in {"p1"} : SingleProducerOfferCall(t, SpoMaxN)
       \/ \E t \in {"p1"} : SupplierCall(t) \/ OfferLoadTail(t) \/ Offer(t)
       \/ \E t \in {"c1"} : PollCall(t) \/ Poll(t)
    /\ UNCHANGED abs

SpecSPO ==
    /\ Init
    /\ [][NextSPO]_vars
    /\ WF_vars(ProducerStep /\ UNCHANGED abs)
    /\ WF_vars(ConsumerStep /\ UNCHANGED abs)

\* Capacities of the one-thread runs.
SeqCapacities == {2, 4, 16}

\* One thread calling Offer, Poll, PollNBatched and SingleConsumerPollVec one
\* after the other, beside
\* the abstract queue that answers the same calls.
InitSeq == InitWith(SeqCapacities)

NextSeq ==
    \E t \in {"p1"} :
        \/ OfferCall(t, SeqMaxVal) /\ AbsOffer(frame'[t].value)
        \/ Offer(t) /\ UNCHANGED abs
        \/ PollCall(t) /\ AbsPoll
        \/ Poll(t) /\ UNCHANGED abs
        \/ PollNBatchedCall(t, SeqMaxN) /\ AbsPollN(IF pc'[t] = "idle" THEN 0 ELSE frame'[t].n)
        \/ PollNBatched(t) /\ UNCHANGED abs
        \/ SingleConsumerPollVecCall(t, SeqMaxN)
              /\ AbsPollVec(IF pc'[t] = "idle" THEN 0 ELSE frame'[t].n)
        \/ PollLoadHead(t) /\ UNCHANGED abs

SpecSeq == InitSeq /\ [][NextSeq]_vars

\* Capacities that break the documented precondition (a power of two >= 2).
BadCapacities == {1, 3}

\* newNodeBased with a capacity of BadCapacities; then one thread calling Offer
\* and Poll one after the other.
InitBad == InitWith(BadCapacities)

NextBad ==
    /\ \E t \in {"p1"} : OfferCall(t, SeqMaxVal) \/ Offer(t) \/ PollCall(t) \/ Poll(t)
    /\ UNCHANGED abs

SpecBad == InitBad /\ [][NextBad]_vars

\* ------------------------------------------------------------------ claims
\* Every delivery: thread t's k-th returned value.
Deliveries == UNION {{<<t, k>> : k \in 1 .. Len(recv[t])} : t \in Threads}

\* The number of times value v was returned by a successful poll.
RecvCount(v) == Cardinality({d \in Deliveries : recv[d[1]][d[2]][2] = v})

\* The number of published nodes between head and tail that hold value v.
InBuffer(v) ==
    Cardinality({p \in head .. tail - 1 :
                    /\ element[NodeIdx(p)].step = p + 1
                    /\ element[NodeIdx(p)].value = v})

\* The positions thread t has claimed on head and not read yet.
Unread(t) ==
    CASE pc[t] = "PollReadValue" -> {frame[t].oldHead}
      [] pc[t] \in {"BatchReadStep", "BatchReadValue"} ->
            frame[t].oldHead + frame[t].i .. frame[t].oldHead + frame[t].available - 1
      [] pc[t] = "BatchRearm" ->
            frame[t].oldHead + frame[t].i + 1 .. frame[t].oldHead + frame[t].available - 1
      [] OTHER -> {}

\* The number of copies of value v that thread t's poll in progress has claimed
\* or read and not returned yet.
HeldBy(t, v) ==
    Cardinality({p \in Unread(t) : element[NodeIdx(p)].value = v})
    + (IF frame[t].caller = "PollNBatched"
       THEN Cardinality({k \in 1 .. Len(frame[t].values) : frame[t].values[k] = v})
       ELSE 0)
    + (IF pc[t] = "PollRearm" /\ frame[t].value = v THEN 1 ELSE 0)

RECURSIVE HeldIn(_, _)
\* The same, summed over the threads of S.
HeldIn(S, v) ==
    IF S = {} THEN 0
    ELSE LET t == CHOOSE x \in S : TRUE IN HeldBy(t, v) + HeldIn(S \ {t}, v)

\* The number of copies of value v held by polls in progress.
Held(v) == HeldIn(Threads, v)

\* C1: no loss, no duplication.  In every state of every interleaving, every
\* value whose Offer returned true is in exactly one place: returned by exactly
\* one successful poll, or held by one poll in progress, or in a published node
\* between head and tail; and every returned value is one whose Offer published.
C1_NoLossNoDup ==
    /\ \A v \in sent : RecvCount(v) + Held(v) + InBuffer(v) = 1
    /\ \A d \in Deliveries : recv[d[1]][d[2]][2] \in sent

\* C1 witness: every value was offered by two producers, returned to two
\* consumers, after tail passed the end of the node array.
C1_Witness ==
    /\ sent = 1 .. MaxVal
    /\ \A v \in sent : RecvCount(v) = 1
    /\ \A t \in Consumers : recv[t] # <<>>
    /\ tail > mask + 1

\* C2: position-matched ordering.  The poll whose CAS moved head from h to h+1
\* returns the value of the Offer whose CAS moved tail from h to h+1, and the
\* positions returned are distinct positions below head.
C2_PositionMatched ==
    /\ Len(offered) = tail
    /\ \A d \in Deliveries :
          LET h == recv[d[1]][d[2]][1] IN
          /\ h >= 0 /\ h < head /\ h < Len(offered)
          /\ recv[d[1]][d[2]][2] = offered[h + 1]
    /\ \A d1, d2 \in Deliveries :
          recv[d1[1]][d1[2]][1] = recv[d2[1]][d2[2]][1] => d1 = d2

\* C2 witness: the two producers' CASes succeeded in the opposite order of
\* their calls, and both consumers returned values.
C2_Witness ==
    /\ Len(offered) >= 2
    /\ offered[1] > offered[2]
    /\ \A t \in Consumers : recv[t] # <<>>
    /\ \E d \in Deliveries : recv[d[1]][d[2]] = <<1, offered[2]>>

\* C3: strict FIFO with one producer and one consumer.  The values the consumer
\* has received are at every moment v1..vk, from positions 0..k-1.
C3_SpscFifo ==
    \A k \in 1 .. Len(recv["c1"]) : recv["c1"][k] = <<k - 1, k>>

\* C3 witness: all N values were received, tail having passed the end of the
\* node array.
C3_Witness ==
    /\ Len(recv["c1"]) = SpscMaxVal
    /\ tail > mask + 1

\* No call is in progress.
Quiescent == \A t \in Threads : pc[t] = "idle"

\* Offer run alone on the buffer as it is returns true (its CAS cannot fail).
OfferAloneSucceeds == OfferReady(element[NodeIdx(tail)].step, tail)

\* C4: sequential refinement of a bounded FIFO queue.  With one thread calling
\* Offer, Poll, PollNBatched and SingleConsumerPollVec one after the other, every
\* Offer and Poll returns what the abstract queue of at most capacity elements
\* answers, SingleConsumerPollVec fills its slice and returns the count as the
\* abstract queue does, and between calls the published nodes from head to tail
\* hold the abstract queue.
C4_SeqRefinement ==
    \A t \in {"p1"} :
        pc[t] = "idle" =>
            /\ ret[t].op \in {"Offer", "Poll"} =>
                  /\ ret[t].success = absRet.success
                  /\ ret[t].value = absRet.value
            /\ ret[t].op = "SingleConsumerPollVec" => ret[t] = absRet
            /\ tail - head = Len(queue)
            /\ \A k \in 1 .. Len(queue) :
                  /\ element[NodeIdx(head + k - 1)].value = queue[k]
                  /\ element[NodeIdx(head + k - 1)].step = head + k

\* C4 witness: an Offer succeeded on a buffer that had been full, after a Poll
\* freed a node and the positions wrapped around the node array.
C4_Witness ==
    /\ pc["p1"] = "idle"
    /\ ret["p1"].op = "Offer" /\ ret["p1"].success
    /\ Len(queue) = mask + 1
    /\ head > 0
    /\ recv["p1"] # <<>>

\* C5: full/empty boundary at quiescence.  In every state in which no call is
\* in progress, Offer run alone fails exactly when tail - head = capacity, and
\* Poll run alone fails (returning the zero value) exactly when head = tail.
C5_Boundary ==
    Quiescent =>
        /\ ~OfferAloneSucceeds <=> (tail - head = mask + 1)
        /\ ~PollAlone(head, element).success <=> (head = tail)
        /\ head = tail => PollAlone(head, element).value = Zero

\* C5 witness: a quiescent full buffer whose head has moved, PollNBatched
\* having taken part.
C5_Witness ==
    /\ Quiescent
    /\ tail - head = mask + 1
    /\ head > 0
    /\ \E t \in Consumers : ret[t].op = "PollNBatched" /\ ret[t].count >= 1

\* C6: batch equivalence without interference.  PollNBatched(n) called on a
\* quiescent buffer holding k published items returns count = min(n, k) and the
\* values min(n, k) successive Poll calls return from that buffer, and leaves the
\* buffer as they leave it; PollNBatched(0) returns nothing and changes nothing.
C6_BatchEquivalence ==
    \A t \in {"p1"} :
        (pc[t] = "idle" /\ ret[t].op = "PollNBatched") =>
            LET k == snap.tail - snap.head
                m == Min(ret[t].n, k)
                ref == PollsAlone(m, snap.head, snap.element)
            IN  /\ ret[t].count = m
                /\ Len(ref.values) = m
                /\ ret[t].values = ref.values
                /\ head = ref.head
                /\ element = ref.element
                /\ tail = snap.tail
                /\ ret[t].values = absRet.values

\* C6 witness: a call returned more values than one claim round can take, and
\* fewer than asked for.
C6_Witness ==
    /\ pc["p1"] = "idle"
    /\ ret["p1"].op = "PollNBatched"
    /\ ret["p1"].count > BatchLimit
    /\ ret["p1"].count < ret["p1"].n

RECURSIVE RunPositions(_)
\* The positions of a sequence of claimed runs <<first position, length>>.
RunPositions(runs) ==
    IF runs = <<>> THEN <<>>
    ELSE [k \in 1 .. runs[1][2] |-> runs[1][1] + k - 1] \o RunPositions(Tail(runs))

\* C7: result shape of PollNBatched under concurrency.  A returned call has
\* count <= n and exactly count values; the values come from strictly
\* increasing positions, which are the positions of the runs it claimed, and
\* each is the value offered at its position.
C7_BatchShape ==
    \A t \in Consumers :
        (pc[t] = "idle" /\ ret[t].op = "PollNBatched") =>
            LET P == obs[t].positions IN
            /\ ret[t].count <= ret[t].n
            /\ Len(ret[t].values) = ret[t].count
            /\ Len(P) = ret[t].count
            /\ P = RunPositions(obs[t].runs)
            /\ \A k \in 1 .. Len(P) - 1 : P[k] < P[k + 1]
            /\ \A k \in 1 .. Len(P) :
                  P[k] < Len(offered) /\ ret[t].values[k] = offered[P[k] + 1]

\* C7 witness: a call returned two values from two runs that are not adjacent,
\* another consumer having polled the position between them.
C7_Witness ==
    \E t \in Consumers :
        /\ pc[t] = "idle" /\ ret[t].op = "PollNBatched"
        /\ ret[t].count = 2
        /\ Len(obs[t].runs) = 2
        /\ obs[t].positions[2] > obs[t].positions[1] + 1

\* The step is taken by thread t.
StepOf(t) == pc'[t] # pc[t] \/ frame'[t] # frame[t] \/ ret'[t] # ret[t]

\* C8: a failed call has no effect.  No step of Offer or Poll before its CAS
\* succeeds changes head, tail, a stamp or a value; a call that returns false
\* has changed none of them, is recorded nowhere, and a failed Poll returns the
\* zero value; a call whose CAS succeeded returns true.
C8_FailedNoEffect ==
    [][\A t \in Threads :
          /\ (StepOf(t) /\ pc[t] \in {"idle", "OfferLoadStep", "PollLoadStep"})
                => shared' = shared
          /\ (StepOf(t) /\ pc[t] \in {"OfferLoadStep", "PollLoadStep", "OfferCAS", "PollCAS"}
                /\ pc'[t] = "idle")
                => /\ shared' = shared
                   /\ <<offered, sent, recv>>' = <<offered, sent, recv>>
                   /\ ~ret'[t].success
                   /\ ret'[t].value = Zero
          /\ (StepOf(t) /\ pc[t] \in {"OfferPublish", "PollRearm"})
                => ret'[t].success
      ]_vars

\* C8 witness: an Offer and a Poll have returned false, one on its stamp check
\* and one on its CAS, in a buffer that holds a value.
C8_Witness ==
    /\ \E t \in Producers : pc[t] = "idle" /\ ret[t].op = "Offer" /\ ~ret[t].success
                            /\ obs[t].moved
    /\ \E t \in Consumers : pc[t] = "idle" /\ ret[t].op = "Poll" /\ ~ret[t].success
                            /\ ~obs[t].moved
    /\ head < tail

\* C9: counter invariants.  In every state head <= tail and
\* tail - head <= capacity, and no step decreases head or tail.
C9_Counters ==
    /\ [](head <= tail /\ tail - head <= mask + 1)
    /\ [][head' >= head /\ tail' >= tail]_vars

\* C9 witness: an Offer and a PollNBatched are both between their CAS and
\* their stamp store, the batch holding a run of two.
C9_Witness ==
    /\ \E t \in Producers : pc[t] \in {"OfferWriteValue", "OfferReadStep", "OfferPublish"}
    /\ \E t \in Consumers : /\ pc[t] \in {"BatchReadStep", "BatchReadValue", "BatchRearm"}
                            /\ frame[t].available = 2

\* A Poll, or the Poll that ended SingleConsumerPoll, has returned false.
PollFailed(t) ==
    /\ pc[t] = "idle"
    /\ ret[t].op \in {"Poll", "SingleConsumerPoll"}
    /\ ~ret[t].success

\* C10 as stated: Poll fails only on empty or on a lost race, and with a single
\* consumer SingleConsumerPoll returns only when head = tail.
C10_Original ==
    \A t \in Consumers :
        PollFailed(t) =>
            /\ obs[t].empty \/ obs[t].moved
            /\ (ret[t].op = "SingleConsumerPoll" /\ active = {t}) => obs[t].empty

\* C10 amended: whenever Poll returns false, at the moment it loaded the stamp
\* the buffer was empty or the Offer that claimed the position at head had not
\* stored its stamp yet, or another consumer advanced head; and with a single
\* consumer SingleConsumerPoll returns only in the first two cases.
C10_PollFails ==
    \A t \in Consumers :
        PollFailed(t) =>
            /\ obs[t].empty \/ obs[t].inFlight \/ obs[t].moved
            /\ (ret[t].op = "SingleConsumerPoll" /\ active = {t})
                  => (obs[t].empty \/ obs[t].inFlight)

\* C10 witness: the only consumer's SingleConsumerPoll has delivered a value
\* and returned while the buffer was not empty, an Offer being in flight.
C10_Witness ==
    /\ PollFailed("c1")
    /\ ret["c1"].op = "SingleConsumerPoll"
    /\ active = {"c1"}
    /\ recv["c1"] # <<>>
    /\ obs["c1"].inFlight /\ ~obs["c1"].empty /\ ~obs["c1"].moved

\* An Offer has returned false.
OfferFailed(t) ==
    /\ pc[t] = "idle"
    /\ ret[t].op = "Offer"
    /\ ~ret[t].success

\* C11 as stated: Offer fails only on full or on a lost race.
C11_Original ==
    \A t \in Producers : OfferFailed(t) => (obs[t].full \/ obs[t].moved)

\* C11 amended: whenever Offer returns false, at the moment it loaded the stamp
\* the buffer was full or the poll that claimed the position one capacity
\* below tail had not stored its stamp yet, or another producer advanced tail;
\* the value of a failed Offer is placed nowhere.
C11_OfferFails ==
    \A t \in Producers :
        OfferFailed(t) =>
            /\ obs[t].full \/ obs[t].inFlight \/ obs[t].moved
            /\ pending[t] \notin sent
            /\ \A k \in 1 .. Len(offered) : offered[k] # pending[t]

\* C11 witness: an Offer has returned false on its stamp check while the buffer
\* was not full and tail had not moved, a Poll being in flight on the node.
C11_Witness ==
    \E t \in Producers :
        /\ OfferFailed(t)
        /\ obs[t].inFlight /\ ~obs[t].full /\ ~obs[t].moved

\* C12: lock-freedom.  Whatever thread t is suspended, wherever it is in its
\* call, the other threads can still complete an Offer or a Poll: in every state
\* in which the threads other than t are between calls, an Offer or a Poll run
\* now by one of them succeeds.  (A call that fails changes nothing, so where
\* both fail every later Offer and Poll of the others fails as well, for as long
\* as t stays suspended.)
C12_LockFree ==
    \A t \in Threads :
        (\A u \in Threads \ {t} : pc[u] = "idle")
            => (OfferAloneSucceeds \/ PollAlone(head, element).success)

\* Value v was placed by a successful Offer and is gone: no poll returned it,
\* no poll in progress holds it and no node holds it any more.
Lost(v) ==
    /\ v \in sent
    /\ RecvCount(v) = 0
    /\ Held(v) = 0
    /\ \A idx \in DOMAIN element : element[idx].value # v

\* C13: unchecked capacity precondition.  newNodeBased accepts capacity 1 and
\* capacity 3, and then, with calls that do not overlap: once two Offer calls
\* have returned and no Poll has succeeded, both Offers succeeded on the same
\* node and the first value is lost; a lost value stays lost, so no later Poll
\* returns it.
C13_Corrupt ==
    /\ [](mask + 1 \in BadCapacities /\ DOMAIN element = 0 .. mask)
    /\ []((pc["p1"] = "idle" /\ pending["p1"] = Zero /\ nextVal >= 2
             /\ head = 0 /\ recv["p1"] = <<>>)
            => /\ tail = nextVal
               /\ NodeIdx(0) = NodeIdx(1)
               /\ Lost(1))
    /\ [][Lost(1) => Lost(1)']_vars

\* C13 witness: after Offer(1), Offer(2) and no Poll, both calls have returned
\* true, value 2 stands where value 1 was written, and a later Poll has failed.
C13_Witness ==
    /\ pc["p1"] = "idle"
    /\ sent = {1, 2}
    /\ offered = <<1, 2>>
    /\ element[NodeIdx(0)].value = 2
    /\ Lost(1)
    /\ ret["p1"].op = "Poll" /\ ~ret["p1"].success

\* SingleProducerOffer has returned.
SpoReturned == pc["p1"] = "idle" /\ ret["p1"].op = "SingleProducerOffer"

\* The values 1 .. n in order.
UpTo(n) == [k \in 1 .. n |-> k]

\* The values thread t received, in the order it received them.
ValuesOf(t) == [k \in 1 .. Len(recv[t]) |-> recv[t][k][2]]

\* C14: SingleProducerOffer over a supplier of n values, beside a fairly
\* scheduled consumer that keeps calling Poll: the call returns; when it has
\* returned, the values 1 .. n have each been enqueued once, in supplier order,
\* and the supplier was called n + 1 times (never after it reported finish); the
\* consumer receives a prefix of 1 .. n at any time and in the end all of it.
C14_SingleProducerOffer ==
    /\ <>[]SpoReturned
    /\ [](SpoReturned => /\ offered = UpTo(ret["p1"].n)
                         /\ sent = 1 .. ret["p1"].n
                         /\ ret["p1"].count = ret["p1"].n + 1)
    /\ [](pc["p1"] # "idle" => /\ frame["p1"].count = frame["p1"].i
                               /\ frame["p1"].i <= frame["p1"].n
                               /\ offered \in {UpTo(nextVal), UpTo(nextVal - 1)})
    /\ [](ValuesOf("c1") = UpTo(Len(recv["c1"])))
    /\ <>[](SpoReturned /\ ValuesOf("c1") = UpTo(ret["p1"].n))

\* C14 witness: the supplier yielded more values than the buffer holds, an
\* Offer of the loop found the buffer full and was retried, the call has
\* returned and the consumer has received every value.
C14_Witness ==
    /\ SpoReturned
    /\ ret["p1"].n > mask + 1
    /\ obs["p1"].full
    /\ ValuesOf("c1") = UpTo(ret["p1"].n)

\* The nodes thread t owns: those of the positions its CAS on tail or head
\* claimed and whose stamp it has not stored yet.
Owns(t) ==
    IF pc[t] \in {"OfferWriteValue", "OfferReadStep", "OfferPublish"}
    THEN {NodeIdx(frame[t].oldTail)}
    ELSE IF pc[t] \in {"PollReadValue", "PollRearm"}
    THEN {NodeIdx(frame[t].oldHead)}
    ELSE IF pc[t] \in {"BatchReadStep", "BatchReadValue", "BatchRearm"}
    THEN {NodeIdx(p) : p \in frame[t].oldHead + frame[t].i
                              .. frame[t].oldHead + frame[t].available - 1}
    ELSE {}

\* The node whose value thread t reads or writes, or whose stamp it stores, in
\* its next step.
Touches(t) ==
    IF pc[t] \in {"OfferWriteValue", "OfferPublish"} THEN {NodeIdx(frame[t].oldTail)}
    ELSE IF pc[t] \in {"PollReadValue", "PollRearm"} THEN {NodeIdx(frame[t].oldHead)}
    ELSE IF pc[t] \in {"BatchReadValue", "BatchRearm"}
    THEN {NodeIdx(frame[t].oldHead + frame[t].i)}
    ELSE {}

\* C15: exclusive slot ownership.  No node is owned by two threads at once, so
\* no value write of an Offer overlaps a value read of a Poll or PollNBatched or
\* a value write of another Offer on one node; and the node whose value a thread
\* is about to read or write, or whose stamp it is about to store, is owned by
\* that thread and so by no other.
C15_Ownership ==
    /\ \A t, u \in Threads : t # u => Owns(t) \cap Owns(u) = {}
    /\ \A t \in Threads :
          /\ Touches(t) \subseteq Owns(t)
          /\ \A u \in Threads \ {t} : Touches(t) \cap Owns(u) = {}

\* C15 witness: in the buffer of capacity 4 both producers and the consumer own
\* a node each at the same moment: one producer about to write its value, the
\* other about to store its stamp, the consumer about to read a value in
\* PollNBatched.
C15_Witness ==
    /\ mask = 3
    /\ \E t \in Producers : pc[t] = "OfferWriteValue"
    /\ \E t \in Producers : pc[t] = "OfferPublish"
    /\ pc["c1"] = "BatchReadValue"

\* The elements of a sequence.
Range(f) == {f[k] : k \in DOMAIN f}

\* The positions whose values thread t has returned.
ReturnedBy(t) == {recv[t][k][1] : k \in 1 .. Len(recv[t])}

\* The positions the call in progress of thread t has claimed with a CAS on head.
ClaimedBy(t) ==
    IF pc[t] \in {"PollReadValue", "PollRearm"} THEN {frame[t].oldHead}
    ELSE IF pc[t] # "idle" /\ frame[t].caller = "PollNBatched"
    THEN Range(RunPositions(obs[t].runs))
    ELSE {}

\* Thread t is extracting the run it claimed.
InRun(t) == pc[t] \in {"BatchReadStep", "BatchReadValue", "BatchRearm"}

\* C16: batched claims do not collide.  With a producer and two consumers that
\* call Poll and PollNBatched concurrently: the positions below head are
\* exactly the positions claimed or returned, each by one consumer and once;
\* a successful batch CAS from h0 to h0+available finds every position of the
\* run published, holding the value offered at that position; while a run is
\* extracted its positions already passed are re-armed and the others still
\* published; each re-arm takes the stamp from p+1 to p+capacity.
C16_BatchNoCollision ==
    /\ [](/\ \A t, u \in Consumers :
               t # u => (ClaimedBy(t) \cup ReturnedBy(t))
                           \cap (ClaimedBy(u) \cup ReturnedBy(u)) = {}
          /\ \A t \in Consumers :
               /\ ClaimedBy(t) \cap ReturnedBy(t) = {}
               /\ Cardinality(ReturnedBy(t)) = Len(recv[t])
               /\ Cardinality(Range(RunPositions(obs[t].runs)))
                     = Len(RunPositions(obs[t].runs))
          /\ UNION {ClaimedBy(t) \cup ReturnedBy(t) : t \in Consumers} = 0 .. head - 1
          /\ \A d \in Deliveries : recv[d[1]][d[2]][2] = offered[recv[d[1]][d[2]][1] + 1]
          /\ \A t \in Consumers :
               InRun(t) =>
                  /\ \A p \in Unread(t) \cup (IF pc[t] = "BatchRearm"
                                               THEN {frame[t].oldHead + frame[t].i}
                                               ELSE {}) :
                        element[NodeIdx(p)].step = p + 1
                  /\ \A p \in frame[t].oldHead .. frame[t].oldHead + frame[t].i - 1 :
                        element[NodeIdx(p)].step >= p + mask + 1)
    /\ [][\A t \in Consumers :
            /\ (pc[t] = "BatchCAS" /\ pc'[t] = "BatchReadStep") =>
                  /\ head' = head + frame[t].available
                  /\ \A p \in head .. head' - 1 :
                        /\ p < tail
                        /\ element[NodeIdx(p)].step = p + 1
                        /\ element[NodeIdx(p)].value = offered[p + 1]
                        /\ p \in ClaimedBy(t)'
            /\ (pc[t] = "BatchRearm" /\ pc'[t] # "BatchRearm") =>
                  LET p == frame[t].oldHead + frame[t].i IN
                  /\ element[NodeIdx(p)].step = p + 1
                  /\ element'[NodeIdx(p)].step = p + mask + 1]_vars

\* C16 witness: both consumers are extracting a run of PollNBatched at the same
\* moment: c2 the run that starts at position 0, c1 a run of two positions
\* behind it.
C16_Witness ==
    /\ InRun("c1") /\ InRun("c2")
    /\ frame["c1"].available = 2
    /\ frame["c1"].oldHead > 0
    /\ frame["c2"].oldHead = 0

\* The positions whose Poll has returned and whose node no later Offer has
\* claimed: the stamp in the node is the one the Poll stored.
Rearmed == {p \in UNION {ReturnedBy(t) : t \in Consumers} : tail <= p + mask + 1}

\* C17 as stated: after a successful Poll at position h the stamp stored in the
\* node at h & mask is h + mask.
C17_Original == \A h \in Rearmed : element[NodeIdx(h)].step = h + mask

\* C17: re-arm value of Poll.  After a successful Poll at position h the stamp
\* stored in the node at h & mask is oldStep + mask = h + 1 + mask, which is
\* h + capacity, the stamp the Offer at position h + capacity waits for.
C17_RearmValue ==
    \A h \in Rearmed :
        /\ element[NodeIdx(h)].step = h + 1 + mask
        /\ OfferReady(element[NodeIdx(h)].step, h + mask + 1)

\* C17 witness: two consumers have returned from Poll at positions 0 and 1 and
\* no Offer has claimed the nodes again.
C17_Witness ==
    /\ {0, 1} \subseteq Rearmed
    /\ \A t \in Consumers : recv[t] # <<>>
    /\ \A t \in Threads : pc[t] = "idle"

\* The stamp s in node idx says: empty, ready for the Offer at position s.
EmptyStamp(idx, s) == NodeIdx(s) = idx

\* The stamp s in node idx says: published, ready for the poll at position s - 1.
PublishedStamp(idx, s) == s >= 1 /\ NodeIdx(s - 1) = idx

\* C18: stamp discipline.  The stamp of node idx is p (empty) or p + 1
\* (published) for a position p of that node, never both; in a quiescent state
\* the positions head .. tail-1 are published and the positions tail ..
\* head+capacity-1 are empty; every stamp store raises the stamp, and it is
\* either the publish of an Offer, from empty p to p + 1, or the re-arm of a Poll
\* or PollNBatched, from published p + 1 to p + capacity, so the two alternate
\* on every node.
C18_StampDiscipline ==
    /\ [](\A idx \in DOMAIN element :
            LET s == element[idx].step IN
            /\ EmptyStamp(idx, s) \/ PublishedStamp(idx, s)
            /\ ~(EmptyStamp(idx, s) /\ PublishedStamp(idx, s)))
    /\ [](Quiescent =>
            /\ \A p \in head .. tail - 1 : element[NodeIdx(p)].step = p + 1
            /\ \A p \in tail .. head + mask : element[NodeIdx(p)].step = p)
    /\ [][\A idx \in DOMAIN element :
            LET s == element[idx].step
                s2 == element'[idx].step
            IN  s2 # s =>
                  /\ s2 > s
                  /\ \/ /\ EmptyStamp(idx, s)
                        /\ s2 = s + 1
                        /\ \E t \in Threads : pc[t] = "OfferPublish" /\ StepOf(t)
                     \/ /\ PublishedStamp(idx, s)
                        /\ s2 = (s - 1) + (mask + 1)
                        /\ \E t \in Threads : pc[t] \in {"PollRearm", "BatchRearm"}
                                                /\ StepOf(t)]_vars

\* C18 witness: a quiescent state of the buffer of capacity 4 with one position
\* polled and re-armed, two published and the last never used.
C18_Witness ==
    /\ Quiescent
    /\ mask = 3
    /\ head = 1
    /\ tail = 3
    /\ element[0].step = 4
    /\ element[1].step = 2
    /\ element[2].step = 3
    /\ element[3].step = 3

\* The scan limit of the round in progress of thread t: min(n - count, 8).
ScanLimit(t) == Min(frame[t].n - frame[t].count, BatchLimit)

\* C19: retry after a lost batch CAS.  The round that loses its CAS changes no
\* shared state and keeps what the call has collected; every round, the one
\* after a lost CAS included, reloads head and scans until a node is not ready
\* or min(n - count, 8) nodes are ready; a successful CAS advances head by the
\* number of nodes scanned, at most min(n - count, 8).
C19_RetryAfterLostCAS ==
    /\ [](\A t \in Threads :
            /\ pc[t] = "BatchScan" =>
                  frame[t].i = frame[t].available /\ frame[t].i < ScanLimit(t)
            /\ pc[t] = "BatchCAS" =>
                  1 <= frame[t].available /\ frame[t].available <= ScanLimit(t))
    /\ [][\A t \in Threads :
            /\ (pc[t] = "BatchCAS" /\ pc'[t] = "BatchLoadHead") =>
                  /\ head # frame[t].oldHead
                  /\ shared' = shared
                  /\ frame'[t] = frame[t]
                  /\ recv' = recv
                  /\ obs'[t].positions = obs[t].positions
                  /\ obs'[t].runs = obs[t].runs
            /\ (pc[t] = "BatchLoadHead" /\ pc'[t] = "BatchScan") =>
                  /\ frame'[t].oldHead = head
                  /\ frame'[t].available = 0
                  /\ frame'[t].n = frame[t].n
                  /\ frame'[t].count = frame[t].count
                  /\ frame'[t].values = frame[t].values
            /\ (pc[t] = "BatchScan" /\ pc'[t] = "BatchCAS") =>
                  LET a == frame'[t].available
                      p == frame[t].oldHead + a
                  IN  a = ScanLimit(t) \/ ~PollReady(element[NodeIdx(p)].step, p)
            /\ (pc[t] = "BatchCAS" /\ pc'[t] = "BatchReadStep") =>
                  /\ head' = head + frame[t].available
                  /\ frame[t].available <= frame[t].n - frame[t].count
                  /\ frame[t].available <= BatchLimit]_vars

\* C19 witness: in the round after a lost CAS, a call has scanned two ready
\* nodes from the head it reloaded and its CAS is about to claim both.
C19_Witness ==
    \E t \in Consumers :
        /\ pc[t] = "BatchCAS"
        /\ obs[t].moved
        /\ frame[t].available = 2
        /\ frame[t].oldHead = head
        /\ head > 0

\* The rounds of its loop that the call of PollNBatched by thread t has begun,
\* when no round lost its CAS: one for every run claimed, the round in progress,
\* and the round whose empty scan ended the call.
RoundsBegun(t) ==
    Len(obs[t].runs)
    + (IF pc[t] \in {"BatchScan", "BatchCAS"} THEN 1 ELSE 0)
    + (IF pc[t] = "idle" /\ ret[t].op = "PollNBatched" /\ ret[t].count < ret[t].n
       THEN 1 ELSE 0)

\* The argument n of the call of PollNBatched by thread t, in progress or returned.
ArgN(t) == IF pc[t] = "idle" THEN ret[t].n ELSE frame[t].n

\* C20: termination of PollNBatched.  Every round ends in one of four ways: its
\* CAS claims at least one position; its scan finds the node at head not ready
\* and the call returns with count < n; its CAS fails, head having been moved
\* past the loaded value by another consumer, which claimed that position; or
\* the loop condition ends the call with count = n.  A call in progress that
\* keeps taking steps returns (the other consumer completes finitely many
\* polls).  With no other consumer no CAS is lost and the call begins at most n
\* rounds.
C20_Termination ==
    /\ [][\A t \in {"c1"} :
            /\ (pc[t] = "BatchCAS" /\ pc'[t] = "BatchReadStep") =>
                  /\ head' >= head + 1
                  /\ Len(obs'[t].runs) = Len(obs[t].runs) + 1
            /\ (pc[t] = "BatchScan" /\ pc'[t] = "idle") =>
                  /\ ~PollReady(element[NodeIdx(frame[t].oldHead)].step, frame[t].oldHead)
                  /\ ret'[t].count < ret'[t].n
            /\ (pc[t] = "BatchCAS" /\ pc'[t] = "BatchLoadHead") =>
                  /\ head > frame[t].oldHead
                  /\ \E u \in Consumers \ {t} :
                        frame[t].oldHead \in ClaimedBy(u) \cup ReturnedBy(u)
            /\ (pc[t] = "BatchLoadHead" /\ pc'[t] = "idle") =>
                  ret'[t].count = ret'[t].n]_vars
    /\ [](pc["c1"] # "idle" => <>(pc["c1"] = "idle"))
    /\ [](active \subseteq {"c1"} =>
            /\ ~obs["c1"].moved
            /\ RoundsBegun("c1") <= ArgN("c1"))

\* C20 witness: a call PollNBatched(2) has claimed one position, then lost the
\* CAS of its second round to a Poll of the other consumer.
C20_Witness ==
    /\ pc["c1"] = "BatchLoadHead"
    /\ obs["c1"].moved
    /\ frame["c1"].n = 2
    /\ frame["c1"].count = 1
    /\ \E k \in 1 .. Len(recv["c2"]) : recv["c2"][k][1] = frame["c1"].oldHead

====
